---------------------------- MODULE Spec2Model ----------------------------
(***************************************************************************)
(* A model of the item/source layer of the xjs SDK:                        *)
(*   src/src/core/source/source.ts   Source (constructor, getCurrentSource, *)
(*                                   getItemList)                           *)
(*   src/src/core/items/item.ts      Item (getItemList, duplicate, unlink,  *)
(*                                   getSource and its classification, the  *)
(*                                   accessors getType, getId, getSceneId,  *)
(*                                   getView)                               *)
(*   src/unnamed/part_000            ready(), setReady, setOnce,            *)
(*                                   remoteVersion                          *)
(*                                                                         *)
(* JavaScript strings are sequences of one-character strings, so that the  *)
(* regular expressions, indexOf and split of the source are computed and   *)
(* not assumed.  A host call (property read/write, scene search, callFunc) *)
(* is asynchronous: it is issued by one step and completes in a later one; *)
(* the promise callbacks a completion triggers run in the same step, since *)
(* no host completion can interleave with the microtasks of another.       *)
(***************************************************************************)
EXTENDS Integers, Sequences, FiniteSets, TLC

VARIABLES
  env,          \* Environment: which context the code runs in
  version,      \* getVersion(): the running host's version
  itemlist,     \* the host's `itemlist` property (a comma separated string)
  sceneItems,   \* the property bags of the items the scenes hold
  calls,        \* the SDK calls in flight: caller -> call record
  dup,          \* the duplicate()/unlink() call in flight and the host it acts on
  readyModule,  \* the module-level state of the ready() module of the page
  accessor      \* an Item object, the host's item behind it, and the accessor call on it

vars == <<env, version, itemlist, sceneItems, calls, dup, readyModule, accessor>>

---------------------------------------------------------------------------
(* Bounds of the model *)

\* host versions are 0 .. MaxVersion
MaxVersion == 3

---------------------------------------------------------------------------
(* JavaScript values *)

\* `undefined`: what reading a missing property yields.  No string, since a
\* string holds one-character elements only.
Undefined == <<"undefined">>

\* String(undefined), as the regular expressions and property keys see it
UndefinedText == <<"u", "n", "d", "e", "f", "i", "n", "e", "d">>

\* NaN, the result of Number(undefined): an integer no ItemTypes member equals
NaN == -1

\* obj[key] of a JavaScript object
Get(obj, key) == IF key \in DOMAIN obj THEN obj[key] ELSE Undefined

\* the implicit string conversion of RegExp.test and of property keys
ToStr(v) == IF v = Undefined THEN UndefinedText ELSE v

Digits == <<"0", "1", "2", "3", "4", "5", "6", "7", "8", "9">>

DigitVal(ch) == (CHOOSE i \in 1..10 : Digits[i] = ch) - 1

IsDigits(s) == Len(s) > 0 /\ \A i \in 1..Len(s) : \E d \in 1..10 : Digits[d] = s[i]

RECURSIVE DecimalVal(_)
DecimalVal(s) ==
  IF Len(s) = 0 THEN 0
  ELSE 10 * DecimalVal(SubSeq(s, 1, Len(s) - 1)) + DigitVal(s[Len(s)])

\* Number(v) of a string or of undefined (Number(n) of a number n is n)
Number(v) ==
  IF v = Undefined THEN NaN
  ELSE IF Len(v) = 0 THEN 0
  ELSE IF IsDigits(v) THEN DecimalVal(v)
  ELSE NaN

\* s.indexOf(sub): the 0-based position of the first occurrence, or -1
MatchesAt(s, sub, i) ==
  /\ i + Len(sub) - 1 <= Len(s)
  /\ SubSeq(s, i, i + Len(sub) - 1) = sub

indexOf(s, sub) ==
  LET hits == {i \in 1..(Len(s) + 1) : MatchesAt(s, sub, i)}
  IN  IF hits = {} THEN -1
      ELSE (CHOOSE i \in hits : \A j \in hits : i <= j) - 1

EndsWith(s, suf) == Len(suf) <= Len(s) /\ SubSeq(s, Len(s) - Len(suf) + 1, Len(s)) = suf

StartsWith(s, pre) == MatchesAt(s, pre, 1)

\* s.split(sep) for a one-character separator
RECURSIVE split(_, _)
split(s, sep) ==
  LET cuts == {i \in 1..Len(s) : s[i] = sep}
  IN  IF cuts = {} THEN <<s>>
      ELSE LET i == CHOOSE c \in cuts : \A d \in cuts : c <= d
           IN  <<SubSeq(s, 1, i - 1)>> \o split(SubSeq(s, i + 1, Len(s)), sep)

---------------------------------------------------------------------------
(* item.ts 31-41 *)

ItemTypes ==
  [UNDEFINED |-> 0, FILE |-> 1, LIVE |-> 2, TEXT |-> 3, BITMAP |-> 4,
   SCREEN |-> 5, FLASHFILE |-> 6, GAMESOURCE |-> 7, HTML |-> 8]

---------------------------------------------------------------------------
(* source.ts 30-44, item.ts 90-93: the objects *)

\* new <cls>(props): the own properties the Source constructor assigns
NewSource(cls, props) ==
  [class       |-> cls,
   _name       |-> Get(props, "name"),
   _cname      |-> Get(props, "cname"),
   _id         |-> Get(props, "id"),
   _srcId      |-> Get(props, "srcid"),
   _sceneId    |-> Get(props, "sceneId"),
   _value      |-> Get(props, "value"),
   _keepLoaded |-> Get(props, "keeploaded"),
   _type       |-> Number(Get(props, "type")),
   _xmlparams  |-> props,
   _isItemCall |-> FALSE]

\* new Item(props)
NewItem(props) == [NewSource("Item", props) EXCEPT !._isItemCall = TRUE]

\* the own property names of a Source or Item object (`class` stands for the
\* prototype, which no property read of the source reaches)
OwnKeys == {"_name", "_cname", "_id", "_srcId", "_sceneId", "_value",
            "_keepLoaded", "_type", "_xmlparams", "_isItemCall"}

\* source[key] of a Source or Item object
GetOwn(obj, key) == IF key \in OwnKeys THEN obj[key] ELSE Undefined

---------------------------------------------------------------------------
(* item.ts 360-441: Item.getSource, the callback on the resolved item list *)

EmptyString == <<>>

VideoPlaylistPrefix == <<"V", "i", "d", "e", "o", " ", "P", "l", "a", "y", "l", "i", "s", "t">>

DotGif == <<".", "g", "i", "f">>

DotXbs == <<".", "x", "b", "s">>

RtspPrefix == <<"r", "t", "s", "p", ":", "/", "/">>

RtmpPrefix == <<"r", "t", "m", "p", ":", "/", "/">>

\* '{33D9A762-90C8-11D0-BD43-00A0C911CE86}'
MicGuid ==
  <<"{", "3", "3", "D", "9", "A", "7", "6", "2", "-", "9", "0", "C", "8", "-",
    "1", "1", "D", "0", "-", "B", "D", "4", "3", "-", "0", "0", "A", "0", "C",
    "9", "1", "1", "C", "E", "8", "6", "}">>

\* /\.gif$/.test(v)
TestGif(v) == EndsWith(ToStr(v), DotGif)

\* /\.(gif|xbs)$/.test(v)
TestGifOrXbs(v) == EndsWith(ToStr(v), DotGif) \/ EndsWith(ToStr(v), DotXbs)

\* /^(rtsp|rtmp):\/\//.test(v)
TestStream(v) == StartsWith(ToStr(v), RtspPrefix) \/ StartsWith(ToStr(v), RtmpPrefix)

\* a method call on `undefined` throws; the executor's throw rejects typePromise
TypeError == [class |-> "TypeError"]

\* item.ts 393: let type = Number(source['_type']); _type holds a number
\* already (source.ts 40), which Number() returns unchanged
TypeOf(source) == GetOwn(source, "_type")

\* item.ts 413, 417, 421: Number(source['type'])
RawTypeOf(source) == Number(GetOwn(source, "type"))

\* item.ts 398-399, 407, 410-411, 414, 418: the signals read off the source object
NameOf(source) == GetOwn(source, "_name")

FilePlaylistOf(source) == GetOwn(source, "FilePlaylist")

RawValueOf(source) == GetOwn(source, "item")

\* item.ts 390-426: typePromise(index), for source = uniqueSource[index]:
\* the object the promise resolves with, or TypeError when the executor throws
typePromise(source) ==
  LET params == GetOwn(source, "_xmlparams")
      type   == TypeOf(source)
  IN  IF type = ItemTypes.GAMESOURCE
        THEN NewSource("GameSource", params)
      ELSE IF (type = ItemTypes.HTML \/ type = ItemTypes.FILE)
              /\ NameOf(source) = Undefined
        THEN TypeError
      ELSE IF /\ (type = ItemTypes.HTML \/ type = ItemTypes.FILE)
              /\ indexOf(NameOf(source), VideoPlaylistPrefix) = 0
              /\ FilePlaylistOf(source) # EmptyString
        THEN NewSource("VideoPlaylistSource", params)
      ELSE IF type = ItemTypes.HTML
        THEN NewSource("HtmlSource", params)
      ELSE IF type = ItemTypes.SCREEN
        THEN NewSource("ScreenSource", params)
      ELSE IF type = ItemTypes.BITMAP
              \/ (type = ItemTypes.FILE /\ TestGif(RawValueOf(source)))
        THEN NewSource("ImageSource", params)
      ELSE IF /\ type = ItemTypes.FILE
              /\ TestGifOrXbs(RawValueOf(source)) = FALSE
              /\ TestStream(RawValueOf(source)) = FALSE
        THEN NewSource("MediaSource", params)
      ELSE IF RawTypeOf(source) = ItemTypes.LIVE /\ RawValueOf(source) = Undefined
        THEN TypeError
      ELSE IF /\ RawTypeOf(source) = ItemTypes.LIVE
              /\ indexOf(RawValueOf(source), MicGuid) = -1
        THEN NewSource("CameraSource", params)
      ELSE IF /\ RawTypeOf(source) = ItemTypes.LIVE
              /\ indexOf(RawValueOf(source), MicGuid) # -1
        THEN NewSource("AudioSource", params)
      ELSE IF RawTypeOf(source) = ItemTypes.FLASHFILE
        THEN NewSource("FlashSource", params)
      ELSE NewSource("Source", params)

\* A JavaScript object used as a map: its keys in insertion order and their values
EmptyObj == [keys |-> <<>>, val |-> <<>>]

HasKey(o, k) == \E i \in 1..Len(o.keys) : o.keys[i] = k

ValueAt(o, k) == o.val[CHOOSE i \in 1..Len(o.keys) : o.keys[i] = k]

\* o[k] = v: a new key is appended, an existing key keeps its place
SetKey(o, k, v) ==
  IF HasKey(o, k)
    THEN [o EXCEPT !.val[CHOOSE i \in 1..Len(o.keys) : o.keys[i] = k] = v]
    ELSE [keys |-> Append(o.keys, k), val |-> Append(o.val, v)]

\* an array index: a canonical decimal string ("0", "7", "10"; not "07")
IsArrayIndex(k) == IsDigits(k) /\ (Len(k) = 1 \/ k[1] # "0")

RECURSIVE SortByValue(_)
SortByValue(ks) ==
  IF ks = {} THEN <<>>
  ELSE LET m == CHOOSE k \in ks : \A j \in ks : DecimalVal(k) <= DecimalVal(j)
       IN  <<m>> \o SortByValue(ks \ {m})

\* for (var j in o): array-index keys in ascending numeric order, then the
\* other keys in insertion order
ForInKeys(o) ==
  LET idx == {o.keys[i] : i \in {j \in 1..Len(o.keys) : IsArrayIndex(o.keys[j])}}
      IsOther(k) == ~IsArrayIndex(k)
  IN  SortByValue(idx) \o SelectSeq(o.keys, IsOther)

\* item.ts 376-382: uniqueObj[items[i]['_srcId']] = items[i], for each item
RECURSIVE uniqueObjOf(_)
uniqueObjOf(items) ==
  IF Len(items) = 0 THEN EmptyObj
  ELSE LET last == items[Len(items)]
       IN  SetKey(uniqueObjOf(SubSeq(items, 1, Len(items) - 1)),
                  ToStr(GetOwn(last, "_srcId")), last)

\* uniqueSource without the grouping by _srcId: every item is pushed
uniqueSourceUngrouped(items) == items

\* item.ts 384-388: uniqueSource, one entry per key of uniqueObj
uniqueSourceOf(items) ==
  LET o  == uniqueObjOf(items)
      ks == ForInKeys(o)
  IN  [i \in 1..Len(ks) |-> ValueAt(o, ks[i])]

\* item.ts 428-436: promiseArray of typePromise(i); what Promise.all yields
typeResults(items) ==
  LET us == uniqueSourceOf(items)
  IN  [i \in 1..Len(us) |-> typePromise(us[i])]

---------------------------------------------------------------------------
(* The collaborators the two files import: Environment, the version        *)
(* utilities, the property channel and Scene.  Their code is not part of   *)
(* the two files; they are modelled by their contracts.                    *)

Contexts == {"extension", "sourceplugin", "sourceconfig"}

isExtension == env = "extension"

isSourcePlugin == env = "sourceplugin"

isSourceConfig == env = "sourceconfig"

\* the minimum version with per-item-list enumeration, and with global linked
\* sources; versions are ordered as the integers are
minVersion == 1

globalsrcMinVersion == 2

Versions == 0..MaxVersion

\* versionCompare(getVersion()).is.lessThan(v) / .greaterThan(v)
lessThan(v) == version < v

greaterThan(v) == version > v

\* iItem.getBaseId(): the id of the item the plugin or its configuration belongs to
BaseId == <<"a">>

NotFound == [class |-> "NotFound"]

\* Scene.searchItemsById(id) settles with the item of that id, or fails with NotFound
searchItemsById(id) ==
  IF \E p \in sceneItems : p.id = id
    THEN NewItem(CHOOSE p \in sceneItems : p.id = id)
    ELSE NotFound

---------------------------------------------------------------------------
(* The calls in flight *)

\* a promise that has not settled, and the null a failed search is turned into
Pending == [class |-> "pending"]

Null == [class |-> "null"]

\* op       the SDK entry point called ("none" before the call)
\* self     this._id, for the instance method Item.getItemList
\* pc       the host call the call waits on: "itemlist" (the property read),
\*          "searching" (the per-id searches), "legacy" (the single search),
\*          "done" (settled), "stuck" (a promise it waits on was rejected and
\*          no handler was attached: it stays pending for ever)
\* searches the scene searches issued: each [id, res], res Pending until it settles
\* items    what the getItemList promise resolved with (Pending before)
\* settled, value, error   the promise handed to the caller
\* issued   the host calls the call has issued, in order
IdleCall ==
  [op |-> "none", self |-> EmptyString, pc |-> "idle", searches |-> <<>>,
   items |-> Pending, settled |-> "pending", value |-> Pending, error |-> "",
   issued |-> <<>>]

PropertyRead(key) == [fn |-> "iItem.get", key |-> key, id |-> EmptyString]

SceneSearch(id) == [fn |-> "Scene.searchItemsById", key |-> "", id |-> id]

resolve(r, v) == [r EXCEPT !.pc = "done", !.settled = "resolved", !.value = v]

reject(r, msg) == [r EXCEPT !.pc = "done", !.settled = "rejected", !.error = msg]

\* a rejection nobody handles: the promise handed to the caller never settles
unhandled(r) == [r EXCEPT !.pc = "stuck"]

\* source.ts 121, item.ts 237: Scene.searchItemsById(id) on the legacy path
issueLegacySearch(r, id) ==
  [r EXCEPT !.pc = "legacy",
            !.searches = <<[id |-> id, res |-> Pending]>>,
            !.issued = Append(@, SceneSearch(id))]

\* source.ts 127, item.ts 243: iItem.get('itemlist')
issueItemlistRead(r) ==
  [r EXCEPT !.pc = "itemlist", !.issued = Append(@, PropertyRead("itemlist"))]

\* Source.getItemList with the version test ahead of the context test
SourceGetItemListVersionFirst(r) ==
  IF lessThan(minVersion)
    THEN issueLegacySearch(r, BaseId)
  ELSE IF isExtension
    THEN reject(r, "Extensions do not have sources associated with them.")
  ELSE IF isSourcePlugin \/ isSourceConfig
    THEN issueItemlistRead(r)
  ELSE r

\* Source.getItemList without the legacy branch
SourceGetItemListNoLegacy(r) ==
  IF isExtension
    THEN reject(r, "Extensions do not have sources associated with them.")
  ELSE IF isSourcePlugin \/ isSourceConfig
    THEN issueItemlistRead(r)
  ELSE r

\* source.ts 112-145: Source.getItemList (Item.getItemList as a static), up to
\* its first host call
SourceGetItemList(r) ==
  IF isExtension
    THEN reject(r, "Extensions do not have sources associated with them.")
  ELSE IF lessThan(minVersion)
    THEN issueLegacySearch(r, BaseId)
  ELSE IF isSourcePlugin \/ isSourceConfig
    THEN issueItemlistRead(r)
  ELSE r

\* item.ts 230-261: item.getItemList, up to its first host call
ItemGetItemList(r) ==
  IF lessThan(minVersion)
    THEN issueLegacySearch(r, r.self)
    ELSE issueItemlistRead(r)

\* source.ts 67-94: Source.getCurrentSource, up to its first host call
SourceGetCurrentSource(r) ==
  IF isExtension
    THEN reject(r, "Extensions do not have sources associated with them.")
  ELSE IF (isSourcePlugin \/ isSourceConfig) /\ greaterThan(minVersion)
    THEN SourceGetItemList(r)
  ELSE IF isSourcePlugin \/ isSourceConfig
    THEN issueLegacySearch(r, BaseId)
  ELSE r

\* item.ts 360-375: Item.getSource, up to its first host call
ItemGetSource(r) ==
  IF isExtension
    THEN reject(r, "Does not work here!")
  ELSE IF isSourcePlugin \/ isSourceConfig
    THEN SourceGetItemList(r)
  ELSE r

\* the searches pushed onto an array that the calls in flight share
issueSearchesShared(r, list) ==
  LET ids == split(list, ",")
      others == {c \in DOMAIN calls : calls[c].searches # <<>>}
      prior == IF others = {} THEN <<>> ELSE calls[CHOOSE c \in others : TRUE].searches
  IN  [r EXCEPT !.pc = "searching",
                !.searches = prior \o [i \in 1..Len(ids) |-> [id |-> ids[i], res |-> Pending]],
                !.issued = @ \o [i \in 1..Len(ids) |-> SceneSearch(ids[i])]]

\* source.ts 129-137, item.ts 245-253: itemlist.split(','), one search per id
issueSearches(r, list) ==
  LET ids == split(list, ",")
  IN  [r EXCEPT !.pc = "searching",
                !.searches = [i \in 1..Len(ids) |-> [id |-> ids[i], res |-> Pending]],
                !.issued = @ \o [i \in 1..Len(ids) |-> SceneSearch(ids[i])]]

\* source.ts 133-135, item.ts 249-251: itemResolve(item), or itemResolve(null)
\* in the catch handler
itemResolve(outcome) == IF outcome = NotFound THEN Null ELSE outcome

\* source.ts 140, item.ts 256: results.filter(res => res !== null)
NotNull(res) == res # Null

\* the results without the filter
filterNothing(results) == results

filterNotNull(results) == SelectSeq(results, NotNull)

\* a join that settles with the first search to settle
anySettled(searches) == \E i \in 1..Len(searches) : searches[i].res # Pending

\* source.ts 139: Promise.all(promiseArray) has settled once no search is pending
allSettled(searches) == \A i \in 1..Len(searches) : searches[i].res # Pending

resultsOf(searches) == [i \in 1..Len(searches) |-> searches[i].res]

\* source.ts 82-86: getCurrentSource's callback on the item list
currentSourceThen(r, items) ==
  IF Len(items) > 0
    THEN resolve(r, items[1])
    ELSE reject(r, "Cannot get item list")

\* item.ts 375-437: getSource's callback on the item list; a typePromise that
\* threw rejects Promise.all, whose rejection nobody handles
sourceThen(r, items) ==
  LET results == typeResults(items)
  IN  IF \E i \in 1..Len(results) : results[i] = TypeError
        THEN unhandled(r)
        ELSE resolve(r, results)

\* the getItemList promise resolves with `items`: the callback of the entry
\* point that asked for it runs
itemListResolved(r, items) ==
  LET r1 == [r EXCEPT !.items = items]
  IN  CASE r.op = "Source.getCurrentSource" -> currentSourceThen(r1, items)
        [] r.op = "Item.getSource"          -> sourceThen(r1, items)
        [] OTHER                            -> resolve(r1, items)

\* source.ts 89-91: getCurrentSource's own search resolves the caller's promise
\* with the item; source.ts 121-125, item.ts 237-241: getItemList's resolves
\* its promise with [item]
legacyResolved(r, item) ==
  IF r.op = "Source.getCurrentSource" /\ ~greaterThan(minVersion)
    THEN resolve(r, item)
    ELSE itemListResolved(r, <<item>>)

---------------------------------------------------------------------------
(* The hosts the calls run against *)

Ids == {<<"a">>, <<"b">>, <<"c">>, <<"d">>}

\* "", "a", "b,a", "a,b,c,d"
ItemLists ==
  {<<>>, <<"a">>, <<"b", ",", "a">>, <<"a", ",", "b", ",", "c", ",", "d">>}

\* how the items are linked: all to one source; a and d to one source and b, c
\* to sources of their own (with numeric ids); each to its own source
SourceIdMaps ==
  {[i \in Ids |-> <<"x">>],
   (<<"a">> :> <<"x">>) @@ (<<"b">> :> <<"1", "0">>) @@ (<<"c">> :> <<"9">>)
     @@ (<<"d">> :> <<"x">>),
   (<<"a">> :> <<"w">>) @@ (<<"b">> :> <<"x">>) @@ (<<"c">> :> <<"y">>)
     @@ (<<"d">> :> <<"z">>)}

\* the type tag of each item, as the host's decimal string
TypeTagOf ==
  (<<"a">> :> <<"2">>) @@ (<<"b">> :> <<"7">>) @@ (<<"c">> :> <<"8">>)
    @@ (<<"d">> :> <<"4">>)

\* the property bag the host holds for an item
ItemProps(id, srcid) ==
  [id |-> id, srcid |-> srcid, name |-> <<"n">> \o id, type |-> TypeTagOf[id],
   item |-> <<"v">> \o id]

DupOff == [pc |-> "off"]

\* the ready() module is not loaded in this page
ReadyOff == [pc |-> "off"]

\* no Item object is held
AccessorOff == [pc |-> "off"]

Callers == {"c1"}

Init ==
  /\ env \in Contexts
  /\ version \in Versions
  /\ itemlist \in ItemLists
  /\ \E present \in SUBSET Ids, src \in SourceIdMaps :
       sceneItems = {ItemProps(id, src[id]) : id \in present}
  /\ calls = [c \in Callers |-> IdleCall]
  /\ dup = DupOff
  /\ readyModule = ReadyOff
  /\ accessor = AccessorOff

---------------------------------------------------------------------------
(* The steps *)

Begin(c, op, self) == [calls[c] EXCEPT !.op = op, !.self = self]

\* Source.getItemList() / Item.getItemList()
CallSourceGetItemList(c) ==
  /\ calls[c].op = "none"
  /\ calls' = [calls EXCEPT ![c] =
                 SourceGetItemList(Begin(c, "Source.getItemList", EmptyString))]
  /\ UNCHANGED <<env, version, itemlist, sceneItems, dup, readyModule, accessor>>

\* item.getItemList(), on an item of the scene
CallItemGetItemList(c) ==
  /\ calls[c].op = "none"
  /\ \E p \in sceneItems :
       calls' = [calls EXCEPT ![c] =
                   ItemGetItemList(Begin(c, "item.getItemList", NewItem(p)._id))]
  /\ UNCHANGED <<env, version, itemlist, sceneItems, dup, readyModule, accessor>>

\* Source.getCurrentSource()
CallGetCurrentSource(c) ==
  /\ calls[c].op = "none"
  /\ calls' = [calls EXCEPT ![c] =
                 SourceGetCurrentSource(Begin(c, "Source.getCurrentSource", EmptyString))]
  /\ UNCHANGED <<env, version, itemlist, sceneItems, dup, readyModule, accessor>>

\* Item.getSource()
CallGetSource(c) ==
  /\ calls[c].op = "none"
  /\ calls' = [calls EXCEPT ![c] =
                 ItemGetSource(Begin(c, "Item.getSource", EmptyString))]
  /\ UNCHANGED <<env, version, itemlist, sceneItems, dup, readyModule, accessor>>

\* the host answers iItem.get('itemlist'): the then-callback splits the list
\* and issues the searches
ItemlistRead(c) ==
  /\ calls[c].pc = "itemlist"
  /\ calls' = [calls EXCEPT ![c] = issueSearches(calls[c], itemlist)]
  /\ UNCHANGED <<env, version, itemlist, sceneItems, dup, readyModule, accessor>>

\* the property read fails: no rejection handler is attached to it
ItemlistReadFails(c) ==
  /\ calls[c].pc = "itemlist"
  /\ calls' = [calls EXCEPT ![c] = unhandled(calls[c])]
  /\ UNCHANGED <<env, version, itemlist, sceneItems, dup, readyModule, accessor>>

\* the search of the legacy path settles: found, or a rejection nobody handles
LegacySearchSettles(c) ==
  /\ calls[c].pc = "legacy"
  /\ LET outcome == searchItemsById(calls[c].searches[1].id)
         r == [calls[c] EXCEPT !.searches[1].res = outcome]
     IN  calls' = [calls EXCEPT ![c] =
                     IF outcome = NotFound THEN unhandled(r)
                     ELSE legacyResolved(r, outcome)]
  /\ UNCHANGED <<env, version, itemlist, sceneItems, dup, readyModule, accessor>>

\* one of the per-id searches settles; the last one to settle lets Promise.all
\* resolve, and the filtered results resolve the getItemList promise
SearchSettles(c, k) ==
  /\ calls[c].pc = "searching"
  /\ k \in 1..Len(calls[c].searches)
  /\ calls[c].searches[k].res = Pending
  /\ LET outcome == searchItemsById(calls[c].searches[k].id)
         r == [calls[c] EXCEPT !.searches[k].res = itemResolve(outcome)]
     IN  calls' = [calls EXCEPT ![c] =
                     IF allSettled(r.searches)
                       THEN itemListResolved(r, filterNotNull(resultsOf(r.searches)))
                       ELSE r]
  /\ UNCHANGED <<env, version, itemlist, sceneItems, dup, readyModule, accessor>>

Next ==
  \E c \in DOMAIN calls :
    \/ CallSourceGetItemList(c)
    \/ CallItemGetItemList(c)
    \/ CallGetCurrentSource(c)
    \/ CallGetSource(c)
    \/ ItemlistRead(c)
    \/ ItemlistReadFails(c)
    \/ LegacySearchSettles(c)
    \/ \E k \in 1..Len(calls[c].searches) : SearchSettles(c, k)

Spec == Init /\ [][Next]_vars

---------------------------------------------------------------------------
(* Claims about enumeration and deduplication, checked under Spec *)

StaticOps == {"Source.getItemList", "Source.getCurrentSource", "Item.getSource"}

ListOps == {"Source.getItemList", "item.getItemList"}

\* the sourceIds of a sequence of items or sources
SrcIdsOf(seq) == {seq[i]._srcId : i \in 1..Len(seq)}

\* C1: when Item.getSource has resolved, its result holds exactly one source
\* per distinct sourceId of the resolved item list: no sourceId twice, none
\* missing, none extra.
C1_OneSourcePerSourceId ==
  \A c \in Callers :
    LET r == calls[c]
    IN  (r.op = "Item.getSource" /\ r.settled = "resolved") =>
          /\ SrcIdsOf(r.value) = SrcIdsOf(r.items)
          /\ \A i, j \in 1..Len(r.value) :
               r.value[i]._srcId = r.value[j]._srcId => i = j

\* C1 witness: getSource resolved over four items, two of which are linked to
\* one source: three sources
C1_Witness ==
  \E c \in Callers :
    /\ calls[c].op = "Item.getSource"
    /\ calls[c].settled = "resolved"
    /\ Len(calls[c].items) = 4
    /\ Len(calls[c].value) = 3

\* the items of the ids of the itemlist property that the scene holds, in the
\* order of the list
FoundInListOrder ==
  LET ids == split(itemlist, ",")
      IsFound(id) == searchItemsById(id) # NotFound
      found == SelectSeq(ids, IsFound)
  IN  [i \in 1..Len(found) |-> searchItemsById(found[i])]

\* C6: at or above the enumeration threshold, getItemList is not rejected by
\* a failing search; once every search has settled it is resolved, with
\* exactly the items that were found, in the order of their ids in the list.
C6_FailedSearchesAreDropped ==
  \A c \in Callers :
    LET r == calls[c]
    IN  (r.op \in ListOps /\ ~lessThan(minVersion) /\ ~isExtension) =>
          /\ r.settled # "rejected"
          /\ (r.pc = "searching" => ~allSettled(r.searches))
          /\ (r.settled = "resolved" =>
                /\ allSettled(r.searches)
                /\ r.value = FoundInListOrder)

\* C6 witness: a list of four ids, one search failed, resolved with the other three
C6_Witness ==
  \E c \in Callers :
    /\ calls[c].op \in ListOps
    /\ calls[c].settled = "resolved"
    /\ Len(calls[c].searches) = 4
    /\ Cardinality({k \in 1..4 : calls[c].searches[k].res = Null}) = 1
    /\ Len(calls[c].value) = 3

\* the id the legacy path searches for
LegacyIdOf(r) == IF r.op = "item.getItemList" THEN r.self ELSE BaseId

\* C7: below the enumeration threshold and outside an extension, getItemList
\* never reads the itemlist property; the only host call is one scene search
\* (of the base id, or of the item's own id), and the promise resolves with
\* the one item that search found.
C7_LegacySingleItem ==
  \A c \in Callers :
    LET r == calls[c]
    IN  (r.op \in ListOps /\ lessThan(minVersion) /\ ~isExtension) =>
          /\ \A i \in 1..Len(r.issued) : r.issued[i].fn # "iItem.get"
          /\ r.issued = <<SceneSearch(LegacyIdOf(r))>>
          /\ r.settled # "rejected"
          /\ (r.settled = "resolved" =>
                /\ Len(r.value) = 1
                /\ r.value[1] = searchItemsById(LegacyIdOf(r)))
          /\ (r.pc = "done" => r.settled = "resolved")

\* C7 witness: the instance method resolved on an old host with an item that
\* is not the base item
C7_Witness ==
  \E c \in Callers :
    /\ lessThan(minVersion)
    /\ calls[c].op = "item.getItemList"
    /\ calls[c].self # BaseId
    /\ calls[c].settled = "resolved"

\* C8: in an extension, Source.getItemList, Source.getCurrentSource and
\* Item.getSource are rejected with an error, whatever the host version, and
\* issue no host call.
C8_ExtensionRejected ==
  \A c \in Callers :
    LET r == calls[c]
    IN  (r.op \in StaticOps /\ isExtension) =>
          /\ r.settled = "rejected"
          /\ r.error # ""
          /\ r.issued = <<>>
          /\ r.searches = <<>>

\* C8 witness: Source.getItemList rejected in an extension on an old host
C8_Witness ==
  \E c \in Callers :
    /\ isExtension
    /\ lessThan(minVersion)
    /\ calls[c].op = "Source.getItemList"
    /\ calls[c].settled = "rejected"

---------------------------------------------------------------------------
(* Classification: one source, its signals drawn from bounded sets *)

\* the nine type tags of ItemTypes, as the host's decimal strings
TypeTags ==
  {<<"0">>, <<"1">>, <<"2">>, <<"3">>, <<"4">>, <<"5">>, <<"6">>, <<"7">>, <<"8">>}

\* "", "Video Playlist - My Show", "My Video Playlist"
Names ==
  {<<>>,
   <<"V", "i", "d", "e", "o", " ", "P", "l", "a", "y", "l", "i", "s", "t", " ",
     "-", " ", "M", "y", " ", "S", "h", "o", "w">>,
   <<"M", "y", " ", "V", "i", "d", "e", "o", " ", "P", "l", "a", "y", "l", "i",
     "s", "t">>}

\* "", "clip.gif", "clip.GIF", "clip.gif.bak", "deck.xbs", "rtsp://cam",
\* "rtmp://cam", "clip.mp4", "cam", "dev" followed by the microphone GUID
RawValues ==
  {<<>>,
   <<"c", "l", "i", "p", ".", "g", "i", "f">>,
   <<"c", "l", "i", "p", ".", "G", "I", "F">>,
   <<"c", "l", "i", "p", ".", "g", "i", "f", ".", "b", "a", "k">>,
   <<"d", "e", "c", "k", ".", "x", "b", "s">>,
   <<"r", "t", "s", "p", ":", "/", "/", "c", "a", "m">>,
   <<"r", "t", "m", "p", ":", "/", "/", "c", "a", "m">>,
   <<"c", "l", "i", "p", ".", "m", "p", "4">>,
   <<"c", "a", "m">>,
   <<"d", "e", "v">> \o MicGuid}

\* the FilePlaylist property: absent, "", "a.xbpl"
FilePlaylists == {Undefined, <<>>, <<"a", ".", "x", "b", "p", "l">>}

\* the property bag of the one item of the scene
ClassifyProps(type, name, raw, fp) ==
  LET base == [id |-> BaseId, srcid |-> <<"x">>, name |-> name, type |-> type,
               item |-> raw]
  IN  IF fp = Undefined THEN base ELSE base @@ [FilePlaylist |-> fp]

InitClassify ==
  /\ env \in {"sourceplugin", "sourceconfig"}
  /\ version \in Versions
  /\ itemlist = BaseId
  /\ \E type \in TypeTags, name \in Names, raw \in RawValues, fp \in FilePlaylists :
       sceneItems = {ClassifyProps(type, name, raw, fp)}
  /\ calls = [c \in Callers |-> IdleCall]
  /\ dup = DupOff
  /\ readyModule = ReadyOff
  /\ accessor = AccessorOff

SpecClassify == InitClassify /\ [][Next]_vars

\* the letters of a file extension, for a case-insensitive match
UpperCase ==
  <<"A", "B", "C", "D", "E", "F", "G", "H", "I", "J", "K", "L", "M", "N", "O",
    "P", "Q", "R", "S", "T", "U", "V", "W", "X", "Y", "Z">>

LowerCase ==
  <<"a", "b", "c", "d", "e", "f", "g", "h", "i", "j", "k", "l", "m", "n", "o",
    "p", "q", "r", "s", "t", "u", "v", "w", "x", "y", "z">>

toLowerCase(s) ==
  [i \in 1..Len(s) |->
     IF \E k \in 1..26 : UpperCase[k] = s[i]
       THEN LowerCase[CHOOSE k \in 1..26 : UpperCase[k] = s[i]]
       ELSE s[i]]

\* the ten rules of the specified decision procedure, first match first, on
\* the signals of a source: its type tag, name, raw value and FilePlaylist
SpecifiedClass(props) ==
  LET type == Number(Get(props, "type"))
      name == Get(props, "name")
      raw  == Get(props, "item")
      fp   == Get(props, "FilePlaylist")
      gif  == EndsWith(toLowerCase(raw), DotGif)
      xbs  == EndsWith(toLowerCase(raw), DotXbs)
      mic  == indexOf(raw, MicGuid) # -1
  IN  IF type = ItemTypes.GAMESOURCE THEN "GameSource"
      ELSE IF /\ type \in {ItemTypes.HTML, ItemTypes.FILE}
              /\ StartsWith(name, VideoPlaylistPrefix)
              /\ fp # Undefined /\ fp # EmptyString THEN "VideoPlaylistSource"
      ELSE IF type = ItemTypes.HTML THEN "HtmlSource"
      ELSE IF type = ItemTypes.SCREEN THEN "ScreenSource"
      ELSE IF type = ItemTypes.BITMAP \/ (type = ItemTypes.FILE /\ gif)
        THEN "ImageSource"
      ELSE IF type = ItemTypes.FILE /\ ~gif /\ ~xbs /\ ~TestStream(raw)
        THEN "MediaSource"
      ELSE IF type = ItemTypes.LIVE /\ ~mic THEN "CameraSource"
      ELSE IF type = ItemTypes.LIVE /\ mic THEN "AudioSource"
      ELSE IF type = ItemTypes.FLASHFILE THEN "FlashSource"
      ELSE "Source"

\* the sources Item.getSource has resolved with
Classified ==
  UNION {{calls[c].value[i] : i \in 1..Len(calls[c].value)} :
           c \in {d \in Callers : calls[d].op = "Item.getSource"
                                   /\ calls[d].settled = "resolved"}}

\* C2: every source Item.getSource resolves with is of the class the ten
\* rules give for its type tag, name, raw value and FilePlaylist.
C2_ClassIsTheSpecifiedOne ==
  \A s \in Classified : s.class = SpecifiedClass(s._xmlparams)

\* C3: an HTML or FILE source named "Video Playlist..." is a
\* VideoPlaylistSource when FilePlaylist is present and not empty; with
\* FilePlaylist "" it is not, and an HTML one is then an HtmlSource.
C3_PlaylistNeedsFilePlaylist ==
  \A s \in Classified :
    LET p == s._xmlparams
    IN  (/\ Number(p.type) \in {ItemTypes.HTML, ItemTypes.FILE}
         /\ StartsWith(p.name, VideoPlaylistPrefix)) =>
          /\ (Get(p, "FilePlaylist") \notin {Undefined, EmptyString} =>
                s.class = "VideoPlaylistSource")
          /\ (Get(p, "FilePlaylist") = EmptyString =>
                /\ s.class # "VideoPlaylistSource"
                /\ (Number(p.type) = ItemTypes.HTML => s.class = "HtmlSource"))

\* C4: a FILE source whose raw value ends in ".gif" in any letter case is an
\* ImageSource; one with ".gif" followed by a further suffix is a MediaSource.
\* (A name "Video Playlist..." sends a FILE source to rule 2 first: the claim
\* is about the other names.)
C4_GifSuffixAnyCase ==
  \A s \in Classified :
    LET p == s._xmlparams
    IN  (/\ Number(p.type) = ItemTypes.FILE
         /\ ~StartsWith(p.name, VideoPlaylistPrefix)) =>
          /\ (EndsWith(toLowerCase(p.item), DotGif) => s.class = "ImageSource")
          /\ ((indexOf(p.item, DotGif) # -1 /\ ~EndsWith(toLowerCase(p.item), DotGif))
                => s.class = "MediaSource")

\* C5: a LIVE source is an AudioSource when its raw value contains the
\* microphone GUID and a CameraSource when it does not; never a plain Source.
C5_LiveIsCameraOrAudio ==
  \A s \in Classified :
    LET p == s._xmlparams
    IN  Number(p.type) = ItemTypes.LIVE =>
          /\ (indexOf(p.item, MicGuid) # -1 => s.class = "AudioSource")
          /\ (indexOf(p.item, MicGuid) = -1 => s.class = "CameraSource")
          /\ s.class # "Source"

---------------------------------------------------------------------------
(* item.ts 283-358: Item.duplicate and Item.unlink *)

\* the values of an option: undefined, null, a boolean, a Scene, another object
JsUndefined == [class |-> "undefined"]

Bool(b) == [class |-> "Boolean", v |-> b]

SceneRef(n) == [class |-> "Scene", number |-> n]

NotAScene == [class |-> "Object"]

\* if (v): undefined, null and false are falsy
truthy(v) ==
  /\ v # JsUndefined
  /\ v # Null
  /\ (v.class = "Boolean" => v.v)

\* v instanceof Scene
instanceofScene(v) == v.class = "Scene"

Options(linked, scene) == [class |-> "Object", linked |-> linked, scene |-> scene]

LinkedValues == {JsUndefined, Bool(TRUE), Bool(FALSE)}

SceneValues == {JsUndefined, Null, NotAScene, SceneRef(1), SceneRef(2)}

OptionValues ==
  {JsUndefined, Null} \cup {Options(l, sc) : l \in LinkedValues, sc \in SceneValues}

\* item.ts 196-209: toXML(): the item's property bag under the tag `item`
toXML(item) == [tag |-> "item", selfclosing |-> TRUE, attrs |-> item._xmlparams]

\* op       "none", "duplicate" or "unlink"
\* item     the Item the method is called on
\* options  the argument of duplicate
\* write, number, func, unlinkWrite   the host calls of the call: the write of
\*          prop:keeploaded, getSceneNumber, callFunc, the write of
\*          prop:globalsrc; each "none", "pending", "done" or "failed"
\* cmd      the command handed to callFunc
\* settled, value, error   the promise handed to the caller
\* issued   the host calls issued, in order
\* host     the host's side: the two properties of the item, and the
\*          commands it has executed
IdleDup(item, keeploaded, globalsrc) ==
  [pc |-> "on", op |-> "none", item |-> item, options |-> JsUndefined,
   write |-> "none", number |-> "none", func |-> "none", unlinkWrite |-> "none",
   cmd |-> "", settled |-> "pending", value |-> Pending, error |-> "",
   issued |-> <<>>,
   host |-> [keeploaded |-> keeploaded, globalsrc |-> globalsrc, executed |-> <<>>]]

PropertyWrite(key, value, id) ==
  [fn |-> "iItem.set", key |-> key, value |-> value, id |-> id]

SceneNumberCall == [fn |-> "Scene.getSceneNumber"]

FuncCall(cmd, xml) == [fn |-> "iApp.callFunc", cmd |-> cmd, xml |-> xml]

\* item.ts 294: iItem.set('prop:keeploaded', '1', this._id); its promise is dropped
issueKeepLoaded(d) ==
  [d EXCEPT !.write = "pending",
            !.issued = Append(@, PropertyWrite("prop:keeploaded", "1", d.item._id))]

\* item.ts 298, 310: options.scene.getSceneNumber()
issueSceneNumber(d) ==
  [d EXCEPT !.number = "pending", !.issued = Append(@, SceneNumberCall)]

\* item.ts 288, 299, 311, 321, 328: iApp.callFunc(cmd, this.toXML().toString())
issueFunc(d, cmd) ==
  [d EXCEPT !.func = "pending", !.cmd = cmd,
            !.issued = Append(@, FuncCall(cmd, toXML(d.item)))]

rejectDup(d, msg) == [d EXCEPT !.settled = "rejected", !.error = msg]

\* `${options.linked ? 1 : 0}`
linkDigit(options) == IF truthy(options.linked) THEN "1" ELSE "0"

\* the characters of a string, joined
RECURSIVE Text(_)
Text(s) == IF Len(s) = 0 THEN "" ELSE s[1] \o Text(Tail(s))

\* `${this._sceneId}`
sceneIdText(item) == Text(ToStr(item._sceneId))

\* item.ts 299, 311: the command once the scene number is known
sceneCommand(options, id) ==
  "link:" \o linkDigit(options) \o "|s:" \o ToString(id) \o "|additem"

\* item.ts 296-307, 308-319: the branches that need a Scene
toScene(d, options) ==
  IF instanceofScene(options.scene)
    THEN issueSceneNumber(d)
    ELSE rejectDup(d, "Invalid parameters")

\* item.ts 283-335: duplicate(options), up to the host calls it issues at once
duplicate(d, options) ==
  IF lessThan(globalsrcMinVersion)
    THEN issueFunc(d, "additem")
  ELSE IF truthy(options)
    THEN LET d1 == IF truthy(options.linked) THEN issueKeepLoaded(d) ELSE d
         IN  IF options.scene # JsUndefined /\ options.linked # JsUndefined
               THEN toScene(d1, options)
             ELSE IF options.linked = JsUndefined
               THEN toScene(d1, options)
             ELSE IF options.scene = JsUndefined
               THEN issueFunc(d1, "link:" \o linkDigit(options) \o "|s:"
                                    \o sceneIdText(d.item) \o "|additem")
             ELSE d1
  ELSE issueFunc(d, "link:0|additem")

\* unlink() resolving at once, without waiting for the write
unlinkWithoutWaiting(d) ==
  [d EXCEPT !.unlinkWrite = "pending",
            !.issued = Append(@, PropertyWrite("prop:globalsrc", "0", d.item._id)),
            !.settled = "resolved",
            !.value = d.item]

\* item.ts 351-358: unlink(), up to its host call
unlink(d) ==
  [d EXCEPT !.unlinkWrite = "pending",
            !.issued = Append(@, PropertyWrite("prop:globalsrc", "0", d.item._id))]

\* the scene the duplicated item is in: "0" or "1" (0-indexed)
DupSceneIds == {<<"0">>, <<"1">>}

DupItem(sceneId) ==
  NewItem(ItemProps(BaseId, <<"x">>) @@ [sceneId |-> sceneId])

InitDup ==
  /\ env \in {"sourceplugin", "sourceconfig"}
  /\ version \in Versions
  /\ itemlist = BaseId
  /\ sceneItems = {}
  /\ calls = [c \in Callers |-> IdleCall]
  /\ \E sceneId \in DupSceneIds, kl \in {"0", "1"}, gs \in {"0", "1"} :
       dup = IdleDup(DupItem(sceneId), kl, gs)
  /\ readyModule = ReadyOff
  /\ accessor = AccessorOff

\* item.duplicate(options)
CallDuplicate ==
  /\ dup.pc = "on" /\ dup.op = "none"
  /\ \E options \in OptionValues :
       dup' = duplicate([dup EXCEPT !.op = "duplicate", !.options = options], options)
  /\ UNCHANGED <<env, version, itemlist, sceneItems, calls, readyModule, accessor>>

\* item.unlink()
CallUnlink ==
  /\ dup.pc = "on" /\ dup.op = "none"
  /\ dup' = unlink([dup EXCEPT !.op = "unlink"])
  /\ UNCHANGED <<env, version, itemlist, sceneItems, calls, readyModule, accessor>>

\* the host performs the write of prop:keeploaded
KeepLoadedWritten ==
  /\ dup.pc = "on" /\ dup.write = "pending"
  /\ dup' = [dup EXCEPT !.write = "done", !.host.keeploaded = "1"]
  /\ UNCHANGED <<env, version, itemlist, sceneItems, calls, readyModule, accessor>>

\* getSceneNumber resolves: its callback hands the command to callFunc
SceneNumberResolved ==
  /\ dup.pc = "on" /\ dup.number = "pending"
  /\ dup' = issueFunc([dup EXCEPT !.number = "done"],
                      sceneCommand(dup.options, dup.options.scene.number))
  /\ UNCHANGED <<env, version, itemlist, sceneItems, calls, readyModule, accessor>>

\* the host executes the command: the callback resolves with the item
FuncDone ==
  /\ dup.pc = "on" /\ dup.func = "pending"
  /\ dup' = [dup EXCEPT !.func = "done",
                        !.host.executed = Append(@, dup.cmd),
                        !.settled = "resolved",
                        !.value = dup.item]
  /\ UNCHANGED <<env, version, itemlist, sceneItems, calls, readyModule, accessor>>

\* the host performs the write of prop:globalsrc: the callback resolves with
\* the item
UnlinkWritten ==
  /\ dup.pc = "on" /\ dup.unlinkWrite = "pending"
  /\ dup' = [dup EXCEPT !.unlinkWrite = "done",
                        !.host.globalsrc = "0",
                        !.settled = "resolved",
                        !.value = dup.item]
  /\ UNCHANGED <<env, version, itemlist, sceneItems, calls, readyModule, accessor>>

\* a pending host call fails; no rejection handler is attached to any of them
HostCallFails ==
  /\ dup.pc = "on"
  /\ \/ dup.write = "pending" /\ dup' = [dup EXCEPT !.write = "failed"]
     \/ dup.number = "pending" /\ dup' = [dup EXCEPT !.number = "failed"]
     \/ dup.func = "pending" /\ dup' = [dup EXCEPT !.func = "failed"]
     \/ dup.unlinkWrite = "pending" /\ dup' = [dup EXCEPT !.unlinkWrite = "failed"]
  /\ UNCHANGED <<env, version, itemlist, sceneItems, calls, readyModule, accessor>>

NextDup ==
  \/ CallDuplicate
  \/ CallUnlink
  \/ KeepLoadedWritten
  \/ SceneNumberResolved
  \/ FuncDone
  \/ UnlinkWritten
  \/ HostCallFails

SpecDup == InitDup /\ [][NextDup]_vars

\* duplicate({linked: true, scene: S}) with S a Scene, at or above the
\* global-linked-source threshold
LinkedToScene(d) ==
  /\ d.op = "duplicate"
  /\ ~lessThan(globalsrcMinVersion)
  /\ d.options.class = "Object"
  /\ d.options.linked = Bool(TRUE)
  /\ instanceofScene(d.options.scene)

\* C9: for duplicate({linked: true, scene: S}), whenever the command
\* link:1|s:<n>|additem is issued, prop:keeploaded is '1' on the host: the
\* write has taken effect.
C9_KeepLoadedSetBeforeAdditem ==
  [][(LinkedToScene(dup) /\ dup.func = "none" /\ dup'.func = "pending")
       => dup'.host.keeploaded = "1"]_vars

\* duplicate(options) with options.scene present but no Scene, at or above
\* the global-linked-source threshold
InvalidScene(d) ==
  /\ d.op = "duplicate"
  /\ ~lessThan(globalsrcMinVersion)
  /\ d.options.class = "Object"
  /\ d.options.scene # JsUndefined
  /\ ~instanceofScene(d.options.scene)

\* C10: duplicate with a scene that is no Scene is rejected with 'Invalid
\* parameters' whatever options.linked is, and has issued no host call.
C10_InvalidSceneNoHostCall ==
  InvalidScene(dup) =>
    /\ dup.settled = "rejected"
    /\ dup.error = "Invalid parameters"
    /\ dup.issued = <<>>


\* duplicate called with neither linked nor scene, at or above the
\* global-linked-source threshold: no argument, null, or an object that has
\* neither key
NeitherSupplied(d) ==
  /\ d.op = "duplicate"
  /\ ~lessThan(globalsrcMinVersion)
  /\ \/ d.options \in {JsUndefined, Null}
     \/ /\ d.options.class = "Object"
        /\ d.options.linked = JsUndefined
        /\ d.options.scene = JsUndefined

\* C11: duplicate with neither linked nor scene issues exactly the command
\* link:0|additem with the item's XML, is never rejected, and resolves with
\* the item.
C11_DefaultDuplicate ==
  NeitherSupplied(dup) =>
    /\ dup.issued = <<FuncCall("link:0|additem", toXML(dup.item))>>
    /\ dup.settled # "rejected"
    /\ (dup.settled = "resolved" => dup.value = dup.item)

\* the writes of prop:globalsrc that the call has issued
GlobalSrcWrites(d) ==
  {d.issued[i] : i \in {j \in 1..Len(d.issued) :
                          /\ d.issued[j].fn = "iItem.set"
                          /\ d.issued[j].key = "prop:globalsrc"}}

\* C12: unlink() issues one host call, the write of prop:globalsrc = '0' for
\* the item's id; it resolves exactly when that write is done, with the item
\* it was called on; no call writes another value to prop:globalsrc, and
\* once the host holds '0' it keeps it.
C12_UnlinkIsOneWay ==
  /\ [](/\ dup.pc = "on" =>
             \A w \in GlobalSrcWrites(dup) : w.value = "0"
        /\ (dup.pc = "on" /\ dup.op = "unlink") =>
             /\ dup.issued = <<PropertyWrite("prop:globalsrc", "0", dup.item._id)>>
             /\ dup.settled # "rejected"
             /\ (dup.settled = "resolved" <=> dup.unlinkWrite = "done")
             /\ (dup.settled = "resolved" =>
                   dup.value = dup.item /\ dup.host.globalsrc = "0"))
  /\ [][(dup.pc = "on" /\ dup.host.globalsrc = "0") => dup'.host.globalsrc = "0"]_vars

\* C12 witness: unlink() has resolved and the host holds '0'
C12_Witness ==
  /\ dup.pc = "on"
  /\ dup.op = "unlink"
  /\ dup.settled = "resolved"
  /\ dup.value = dup.item
  /\ dup.host.globalsrc = "0"

---------------------------------------------------------------------------
(* src/unnamed/part_000: ready(), the startup handshake *)

\* at most this many ready() calls are made
MaxReadyCalls == 3

\* a string argument
Str(text) == [class |-> "String", text |-> text]

\* the config argument of ready(): an object with its version and remote keys
Config(v, r) == [class |-> "Object", version |-> v, remote |-> r]

ConfigValues ==
  {JsUndefined, Null} \cup
  {Config(v, r) : v \in {JsUndefined, Str(<<"1">>), Str(<<"3">>)},
                  r \in {JsUndefined, Bool(TRUE)}}

\* 'Broadcaster', the word before the version in a user agent
Broadcaster == <<"B", "r", "o", "a", "d", "c", "a", "s", "t", "e", "r">>

\* the user agents remoteVersion() is called with
UserAgents ==
  { <<"M">>,
    Broadcaster \o <<" ", "2">>,
    <<"X", " ">> \o Broadcaster,
    <<"X", " ">> \o Broadcaster \o <<" ", "3", " ">> \o Broadcaster \o <<" ", "1">> }

\* nothing returned yet by ready()
NoReturn == [readyBefore |-> FALSE, promise |-> "none"]

\* part_000 10-18: the executor of readyPromise, run once when the module is
\* loaded: it subscribes to 'xsplit-js-ready' and resolves if isReady holds
readyPromiseExecutor(m) ==
  LET m1 == [m EXCEPT !.listening = TRUE]
  IN  IF m1.isReady THEN [m1 EXCEPT !.readyPromise = "resolved"] ELSE m1

\* part_000 6-18: the module once loaded
LoadedModule ==
  readyPromiseExecutor(
    [pc |-> "on", isReady |-> FALSE, isInit |-> FALSE,
     xjsRemoteVersion |-> Undefined, readyPromise |-> "pending",
     listening |-> FALSE, mockVersion |-> Undefined,
     inits |-> 0, readyCalls |-> 0, direct |-> FALSE, returned |-> NoReturn])

\* setMockVersion(version)
setMockVersion(m, v) == [m EXCEPT !.mockVersion = v]

\* part_000 37-39
setReady(m) == [m EXCEPT !.isReady = TRUE]

\* part_000 41-43
setOnce(m) == [m EXCEPT !.isInit = TRUE]

\* init(): counted, one per invocation
init(m) == [m EXCEPT !.inits = @ + 1]

\* ready() calling init() whenever the page is ready
readyInitEveryTime(m, config) ==
  LET m1 == IF truthy(config) /\ config.version # JsUndefined
            THEN setMockVersion(m, config.version.text) ELSE m
      m2 == IF truthy(config) /\ config.remote # JsUndefined
            THEN setMockVersion(m1, m1.xjsRemoteVersion) ELSE m1
      m3 == setReady(m2)
  IN  IF m3.isReady THEN init(setOnce(m3)) ELSE m3

\* part_000 20-35: ready(config); it returns readyPromise
ready(m, config) ==
  LET m1 == IF truthy(config) /\ config.version # JsUndefined
            THEN setMockVersion(m, config.version.text) ELSE m
      m2 == IF truthy(config) /\ config.remote # JsUndefined
            THEN setMockVersion(m1, m1.xjsRemoteVersion) ELSE m1
      m3 == setReady(m2)
  IN  IF m3.isReady /\ ~m3.isInit THEN init(setOnce(m3)) ELSE m3

\* part_000 61-71: remoteVersion(version), the word after each 'Broadcaster'
remoteVersion(m, ua) ==
  LET verArray == split(ua, " ")
      hits == {i \in 1..Len(verArray) : verArray[i] = Broadcaster}
  IN  IF hits = {} THEN m
      ELSE LET i == CHOOSE h \in hits : \A g \in hits : g <= h
           IN  [m EXCEPT !.xjsRemoteVersion =
                           IF i + 1 <= Len(verArray) THEN verArray[i + 1]
                           ELSE Undefined]

InitReady ==
  /\ env \in Contexts
  /\ version \in Versions
  /\ itemlist = BaseId
  /\ sceneItems = {}
  /\ calls = [c \in Callers |-> IdleCall]
  /\ dup = DupOff
  /\ readyModule = LoadedModule
  /\ accessor = AccessorOff

\* a caller calls ready(config) and is handed readyPromise
Ready(config) ==
  /\ readyModule.pc = "on"
  /\ readyModule.readyCalls < MaxReadyCalls
  /\ LET m == ready(readyModule, config)
     IN  readyModule' =
           [m EXCEPT !.readyCalls = @ + 1,
                     !.returned = [readyBefore |-> readyModule.isReady,
                                   promise |-> m.readyPromise]]
  /\ UNCHANGED <<env, version, itemlist, sceneItems, calls, dup, accessor>>

\* the document dispatches 'xsplit-js-ready': the listener resolves readyPromise
XSplitJsReady ==
  /\ readyModule.pc = "on"
  /\ readyModule.listening
  /\ readyModule' = [readyModule EXCEPT !.readyPromise = "resolved"]
  /\ UNCHANGED <<env, version, itemlist, sceneItems, calls, dup, accessor>>

\* setReady() called from outside ready()
SetReady ==
  /\ readyModule.pc = "on"
  /\ readyModule' = [setReady(readyModule) EXCEPT !.direct = TRUE]
  /\ UNCHANGED <<env, version, itemlist, sceneItems, calls, dup, accessor>>

\* setOnce() called from outside ready()
SetOnce ==
  /\ readyModule.pc = "on"
  /\ readyModule' = [setOnce(readyModule) EXCEPT !.direct = TRUE]
  /\ UNCHANGED <<env, version, itemlist, sceneItems, calls, dup, accessor>>

\* remoteVersion(userAgent)
RemoteVersion(ua) ==
  /\ readyModule.pc = "on"
  /\ readyModule' = remoteVersion(readyModule, ua)
  /\ UNCHANGED <<env, version, itemlist, sceneItems, calls, dup, accessor>>

NextReady ==
  \/ \E config \in ConfigValues : Ready(config)
  \/ XSplitJsReady
  \/ SetReady
  \/ SetOnce
  \/ \E ua \in UserAgents : RemoteVersion(ua)

SpecReady == InitReady /\ [][NextReady]_vars

\* C13: isReady, once true, stays true; init() is invoked at most once; and
\* in a run made of ready() calls and 'xsplit-js-ready' events only, the page
\* is not ready and init() not invoked before the first ready() call, and it
\* is ready and init() invoked exactly once after it, however many calls
\* follow.
C13_ReadyOnce ==
  /\ [](readyModule.pc = "on" =>
          /\ readyModule.inits <= 1
          /\ (~readyModule.direct /\ readyModule.readyCalls = 0) =>
               (~readyModule.isReady /\ readyModule.inits = 0)
          /\ (~readyModule.direct /\ readyModule.readyCalls >= 1) =>
               (readyModule.isReady /\ readyModule.isInit /\ readyModule.inits = 1))
  /\ [][(readyModule.pc = "on" /\ readyModule.isReady) => readyModule'.isReady]_vars

\* C13 witness: ready() was called more than once, and the event dispatched
C13_Witness ==
  /\ readyModule.pc = "on"
  /\ ~readyModule.direct
  /\ readyModule.readyCalls >= 2
  /\ readyModule.readyPromise = "resolved"
  /\ readyModule.inits = 1

\* C14: the promise handed out by a ready() call that found isReady true is
\* already resolved.
C14_ReadyResolvesAtOnce ==
  (readyModule.pc = "on" /\ readyModule.returned.readyBefore) =>
    readyModule.returned.promise = "resolved"

---------------------------------------------------------------------------
(* Claims about failures, order and the join of enumeration, checked under Spec *)

EnumerationOps ==
  {"Source.getItemList", "item.getItemList", "Source.getCurrentSource", "Item.getSource"}

\* the itemlist read, or the search of the legacy path, has failed
HostCallFailed(r) ==
  /\ r.pc = "stuck"
  /\ \/ r.searches = <<>>
     \/ r.searches[1].res = NotFound

\* C15: when the itemlist read or the legacy search fails, the promise handed
\* to the caller of getItemList, getCurrentSource or getSource is rejected.
C15_HostFailureRejects ==
  \A c \in DOMAIN calls :
    LET r == calls[c]
    IN  (r.op \in EnumerationOps /\ HostCallFailed(r)) => r.settled = "rejected"

\* the distinct sourceIds of `items`, each at the place of its first occurrence
FirstOccurrences(items) ==
  LET firsts == {i \in 1..Len(items) :
                   \A j \in 1..(i - 1) : items[j]._srcId # items[i]._srcId}
  IN  [k \in 1..Cardinality(firsts) |->
         items[CHOOSE i \in firsts : Cardinality({j \in firsts : j < i}) = k - 1]._srcId]

\* C17: the sources getSource resolves with come in the order in which their
\* sourceIds first occur in the resolved item list.
C17_SourcesInFirstOccurrenceOrder ==
  \A c \in DOMAIN calls :
    LET r == calls[c]
    IN  (r.op = "Item.getSource" /\ r.settled = "resolved") =>
          [i \in 1..Len(r.value) |-> r.value[i]._srcId] = FirstOccurrences(r.items)

\* the call has read the itemlist property and issued its per-id searches
ListPath(r) ==
  /\ r.issued # <<>>
  /\ r.issued[1] = PropertyRead("itemlist")
  /\ r.searches # <<>>

\* the call still waits for Promise.all: the getItemList promise is unresolved
JoinWaiting(r) == r.pc = "searching"

\* C18: on the itemlist path the getItemList promise is unresolved exactly
\* while one of the per-id searches is unsettled: it does not resolve before
\* the last search has settled, and it has resolved (with the results that
\* are not null) once all have, in whatever order they settled.
C18_AllCompleteJoin ==
  \A c \in DOMAIN calls :
    LET r == calls[c]
    IN  ListPath(r) =>
          /\ JoinWaiting(r) <=>
               (\E k \in 1..Len(r.searches) : r.searches[k].res = Pending)
          /\ ~JoinWaiting(r) =>
               r.items = SelectSeq(resultsOf(r.searches), NotNull)

\* C18 witness: four searches, the last of the list settled while the first
\* is still unsettled, and the join still waiting
C18_Witness ==
  \E c \in DOMAIN calls :
    /\ ListPath(calls[c])
    /\ Len(calls[c].searches) = 4
    /\ calls[c].searches[1].res = Pending
    /\ calls[c].searches[4].res # Pending
    /\ JoinWaiting(calls[c])

\* what Source.getItemList resolves with on this host
ExpectedItemList ==
  IF lessThan(minVersion) THEN <<searchItemsById(BaseId)>> ELSE FoundInListOrder

\* C20: in a source plugin or its configuration, Source.getCurrentSource
\* starts with the host call Source.getItemList starts with, on every host
\* version, and it resolves with the first item of what Source.getItemList
\* resolves with.
C20_SameStrategy ==
  \A c \in DOMAIN calls :
    LET r == calls[c]
    IN  (r.op = "Source.getCurrentSource" /\ (isSourcePlugin \/ isSourceConfig)) =>
          /\ r.issued[1] = SourceGetItemList(IdleCall).issued[1]
          /\ (r.settled = "resolved" => r.value = ExpectedItemList[1])

---------------------------------------------------------------------------
(* Two callers: enumerations in flight at the same time *)

ConcurrentCallers == {"c1", "c2"}

\* the items the two callers' host holds: a subset of a and b, listed as "b,a"
ConcurrentIds == {<<"a">>, <<"b">>}

InitConcurrent ==
  /\ env \in Contexts
  /\ version \in Versions
  /\ itemlist = <<"b", ",", "a">>
  /\ \E present \in SUBSET ConcurrentIds, src \in SourceIdMaps :
       sceneItems = {ItemProps(id, src[id]) : id \in present}
  /\ calls = [c \in ConcurrentCallers |-> IdleCall]
  /\ dup = DupOff
  /\ readyModule = ReadyOff
  /\ accessor = AccessorOff

SpecConcurrent == InitConcurrent /\ [][Next]_vars

Settled(how, v) == [settled |-> how, value |-> v]

\* the outcome of the search of `id` alone: the item, or a promise that
\* never settles
AloneSearch(id) ==
  IF searchItemsById(id) = NotFound
    THEN Settled("pending", Pending)
    ELSE Settled("resolved", searchItemsById(id))

\* the outcome of a call when it runs alone against the host: read off the
\* host's state, with no step of another call in between
Alone(r) ==
  CASE r.op = "item.getItemList" ->
         IF lessThan(minVersion)
           THEN IF AloneSearch(r.self).settled = "resolved"
                  THEN Settled("resolved", <<AloneSearch(r.self).value>>)
                  ELSE AloneSearch(r.self)
           ELSE Settled("resolved", FoundInListOrder)
    [] r.op = "Source.getItemList" ->
         IF isExtension THEN Settled("rejected", Pending)
         ELSE IF lessThan(minVersion)
           THEN IF AloneSearch(BaseId).settled = "resolved"
                  THEN Settled("resolved", <<AloneSearch(BaseId).value>>)
                  ELSE AloneSearch(BaseId)
         ELSE Settled("resolved", FoundInListOrder)
    [] r.op = "Source.getCurrentSource" ->
         IF isExtension THEN Settled("rejected", Pending)
         ELSE IF greaterThan(minVersion)
           THEN IF Len(FoundInListOrder) > 0
                  THEN Settled("resolved", FoundInListOrder[1])
                  ELSE Settled("rejected", Pending)
         ELSE AloneSearch(BaseId)
    [] r.op = "Item.getSource" ->
         IF isExtension THEN Settled("rejected", Pending)
         ELSE IF lessThan(minVersion)
           THEN IF AloneSearch(BaseId).settled = "resolved"
                  THEN Settled("resolved", typeResults(<<AloneSearch(BaseId).value>>))
                  ELSE AloneSearch(BaseId)
         ELSE Settled("resolved", typeResults(FoundInListOrder))

\* C16: with two callers' enumerations in flight, under every interleaving of
\* the host-call completions, a call that has settled has settled the way it
\* does alone on this host (resolved with the same value, or rejected), a call
\* that can no longer settle does not settle alone either, and a call issues
\* no more searches than the item list has ids.
C16_ConcurrentCallsIndependent ==
  \A c \in DOMAIN calls :
    LET r == calls[c]
    IN  r.op \in EnumerationOps =>
          /\ r.settled # "pending" => r.settled = Alone(r).settled
          /\ r.settled = "resolved" => r.value = Alone(r).value
          /\ (r.pc = "stuck" /\ r.searches # <<>>) => Alone(r).settled = "pending"
          /\ Len(r.searches) <= Len(split(itemlist, ","))

\* C16 witness: getSource has resolved for one caller while the join of the
\* other caller's getItemList is waiting, its second search settled before
\* its first
C16_Witness ==
  /\ calls["c1"].op = "Item.getSource"
  /\ calls["c1"].settled = "resolved"
  /\ Len(calls["c1"].value) = 2
  /\ calls["c2"].op = "Source.getItemList"
  /\ JoinWaiting(calls["c2"])
  /\ calls["c2"].searches[1].res = Pending
  /\ calls["c2"].searches[2].res # Pending

---------------------------------------------------------------------------
(* item.ts 108-182: the accessors of an Item object *)

\* at most this many accessor calls are made on the object
MaxAccessorCalls == 3

\* item.ts 43-47
ViewTypes == [MAIN |-> 0, PREVIEW |-> 1, THUMBNAIL |-> 2]

\* the host's side of the item: its properties and the preview editor flag
AccessorHosts ==
  [id : {BaseId},
   type : {<<"2">>, <<"8">>},
   sceneId : {<<"0">>, <<"1">>},
   viewid : {<<"0">>, <<"1">>},
   preview_editor_opened : {<<"0">>, <<"1">>}]

\* the Item object constructed from the host's properties of the item
ItemOf(h) ==
  NewItem([ItemProps(h.id, <<"x">>) EXCEPT !.type = h.type] @@ [sceneId |-> h.sceneId])

\* n      the accessor calls made so far
\* op     the accessor called last; wait: "none", "pending" (a host read is
\*        outstanding) or "done" (the promise has resolved with `value`)
\* issued the host reads the call has issued
IdleAccessor(h) ==
  [pc |-> "on", host |-> h, item |-> ItemOf(h), n |-> 0, op |-> "none",
   wait |-> "none", value |-> Pending, issued |-> <<>>]

ItemPropertyRead(key, id) == [fn |-> "iItem.get", key |-> key, id |-> id]

Called(a, op) ==
  [a EXCEPT !.n = @ + 1, !.op = op, !.wait = "none", !.value = Pending, !.issued = <<>>]

resolved(a, v) == [a EXCEPT !.wait = "done", !.value = v]

\* ItemTypes[ItemTypes[n]]: the reverse mapping of the enum, then the forward one
ItemTypeOf(n) ==
  IF \E k \in DOMAIN ItemTypes : ItemTypes[k] = n
    THEN ItemTypes[CHOOSE k \in DOMAIN ItemTypes : ItemTypes[k] = n]
    ELSE Undefined

\* item.ts 108-115: getType(), up to its host read
getType(a) ==
  [a EXCEPT !.wait = "pending",
            !.issued = Append(@, ItemPropertyRead("prop:type", a.item._id))]

\* item.ts 111-112: the callback on prop:type
typeThen(a, val) ==
  LET a1 == [a EXCEPT !.item._type = ItemTypeOf(Number(val))]
  IN  resolved(a1, a1.item._type)

\* item.ts 130-134: getId()
getId(a) == resolved(a, a.item._id)

\* item.ts 149-153: getSceneId()
getSceneId(a) == resolved(a, Number(a.item._sceneId) + 1)

\* item.ts 171-182: getView(), up to its host read
getView(a) ==
  [a EXCEPT !.wait = "pending",
            !.issued = Append(@, ItemPropertyRead("prop:viewid", a.item._id))]

\* item.ts 173-179: the callback on prop:viewid; iApp.getGlobalProperty is read
\* in the callback
viewThen(a, viewId) ==
  IF viewId = <<"1">>
    THEN resolved(a, IF a.host.preview_editor_opened = <<"1">>
                       THEN ViewTypes.PREVIEW ELSE ViewTypes.THUMBNAIL)
    ELSE resolved(a, ViewTypes.MAIN)

InitAccessor ==
  /\ env \in {"sourceplugin", "sourceconfig"}
  /\ version \in Versions
  /\ itemlist = BaseId
  /\ sceneItems = {}
  /\ calls = [c \in Callers |-> IdleCall]
  /\ dup = DupOff
  /\ readyModule = ReadyOff
  /\ \E h \in AccessorHosts : accessor = IdleAccessor(h)

CanCall ==
  /\ accessor.pc = "on"
  /\ accessor.wait # "pending"
  /\ accessor.n < MaxAccessorCalls

CallGetType ==
  /\ CanCall
  /\ accessor' = getType(Called(accessor, "getType"))
  /\ UNCHANGED <<env, version, itemlist, sceneItems, calls, dup, readyModule>>

CallGetId ==
  /\ CanCall
  /\ accessor' = getId(Called(accessor, "getId"))
  /\ UNCHANGED <<env, version, itemlist, sceneItems, calls, dup, readyModule>>

CallGetSceneId ==
  /\ CanCall
  /\ accessor' = getSceneId(Called(accessor, "getSceneId"))
  /\ UNCHANGED <<env, version, itemlist, sceneItems, calls, dup, readyModule>>

CallGetView ==
  /\ CanCall
  /\ accessor' = getView(Called(accessor, "getView"))
  /\ UNCHANGED <<env, version, itemlist, sceneItems, calls, dup, readyModule>>

\* the host answers the read of prop:type with the item's type
TypeRead ==
  /\ accessor.pc = "on"
  /\ accessor.op = "getType" /\ accessor.wait = "pending"
  /\ accessor' = typeThen(accessor, accessor.host.type)
  /\ UNCHANGED <<env, version, itemlist, sceneItems, calls, dup, readyModule>>

\* the host answers the read of prop:viewid
ViewIdRead ==
  /\ accessor.pc = "on"
  /\ accessor.op = "getView" /\ accessor.wait = "pending"
  /\ accessor' = viewThen(accessor, accessor.host.viewid)
  /\ UNCHANGED <<env, version, itemlist, sceneItems, calls, dup, readyModule>>

\* the host's side changes: the item is moved to another scene, becomes of
\* another type, is shown in another view, or the preview editor opens or closes
HostChanges ==
  /\ accessor.pc = "on"
  /\ \E h \in AccessorHosts :
       /\ h # accessor.host
       /\ accessor' = [accessor EXCEPT !.host = h]
  /\ UNCHANGED <<env, version, itemlist, sceneItems, calls, dup, readyModule>>

NextAccessor ==
  \/ CallGetType
  \/ CallGetId
  \/ CallGetSceneId
  \/ CallGetView
  \/ TypeRead
  \/ ViewIdRead
  \/ HostChanges

SpecAccessor == InitAccessor /\ [][NextAccessor]_vars

\* what the host holds, at this moment, for the value an accessor returns
HostValue(op, h) ==
  CASE op = "getType"    -> ItemTypeOf(Number(h.type))
    [] op = "getId"      -> h.id
    [] op = "getSceneId" -> Number(h.sceneId) + 1
    [] op = "getView"    ->
         IF h.viewid = <<"1">>
           THEN IF h.preview_editor_opened = <<"1">>
                  THEN ViewTypes.PREVIEW ELSE ViewTypes.THUMBNAIL
           ELSE ViewTypes.MAIN

\* C19: whenever an accessor call on an Item object resolves, be it getType,
\* getId, getSceneId or getView, the value it resolves with is the one the
\* host holds at that moment, whatever changed on the host since the object
\* was constructed.
C19_AccessorsReturnHostValue ==
  [][(/\ accessor.pc = "on"
      /\ accessor'.wait = "done"
      /\ (accessor.wait = "pending" \/ accessor'.n # accessor.n))
       => accessor'.value = HostValue(accessor'.op, accessor'.host)]_vars

===========================================================================
